---- MODULE Spec2Model ----
(***************************************************************************)
(* A model of the Ingrid grid (src/src/grid.rs): a dynamic two-dimensional *)
(* array stored as a vector of row vectors, with a logical size, a per-row *)
(* capacity (row_capacity) and a pool of spare row vectors.                *)
(*                                                                         *)
(* Every method of Grid is a pure operator from a grid record to a result  *)
(* record [g, err, ret]; a panic is the result whose err is not "none" and *)
(* whose g is the grid as the panicking call left it.  The actions apply   *)
(* one method to the current grid and remember the grid before the call    *)
(* (pre) and the call itself (last); ret is <<>> for a call that returns   *)
(* nothing and <<e>> for a call that returns (a reference to) element e.   *)
(*                                                                         *)
(* Indices and coordinates are 0-based as in the source; TLA+ sequences    *)
(* are 1-based, so element (x, y) is rows[y + 1][x + 1].                   *)
(*                                                                         *)
(* A view (row.rs, row_mut.rs, column.rs, column_mut.rs) is the index of   *)
(* a row or column of the grid; an iterator (iterator_grid.rs,             *)
(* iterator_row.rs, iterator_column.rs, enumerate_coordinate.rs) is the    *)
(* variable it, alive from the call that returns it until it is dropped,   *)
(* and trace lists the coordinates of the items it has produced.           *)
(*                                                                         *)
(* Spec runs whole method calls.  SpecRotation runs rotate_left and        *)
(* rotate_right one statement at a time, the locals of the running call   *)
(* in the variable rotation, so that the grid between two passes of their  *)
(* loops is a state.                                                       *)
(***************************************************************************)
EXTENDS Integers, Sequences, FiniteSets, TLC

(* ------------------------------ bounds -------------------------------- *)
\* Largest width / height that a constructor, resize or insert may produce.
MaxW == 3
MaxH == 3
\* Largest number of elements (width x height) of a grid.
MaxCells == 4
\* Largest capacity (on either axis) that reserve may produce.
MaxCap == 4
\* Largest amount (on either axis) that one reserve call asks for.
MaxAdd == 1

\* Element values.  The operations only move and copy elements, so two values
\* label every position of every grid in every possible way.
Values == {1, 2}
Widths == 0..MaxW
Heights == 0..MaxH

\* The sizes within the bounds.
Sizes == {sz \in [width : Widths, height : Heights] :
            sz.width * sz.height <= MaxCells}

(* ------------------------- geometry values ---------------------------- *)
Size(w, h) == [width |-> w, height |-> h]
Coordinate(x, y) == [x |-> x, y |-> y]

Max(a, b) == IF a >= b THEN a ELSE b

(* ------------------------- std::vec::Vec ------------------------------ *)
\* Vec::resize / vec of n clones of v.
Repeat(v, n) == [i \in 1..n |-> v]

\* Vec::resize(n, v): truncate, or extend with clones of v.
VecResize(s, n, v) ==
    IF n <= Len(s) THEN SubSeq(s, 1, n) ELSE s \o Repeat(v, n - Len(s))

\* Vec::insert(i, e), 0-based i <= len.
VecInsert(s, i, e) == SubSeq(s, 1, i) \o <<e>> \o SubSeq(s, i + 1, Len(s))

\* Vec::remove(i), 0-based i < len.
VecRemove(s, i) == SubSeq(s, 1, i) \o SubSeq(s, i + 2, Len(s))

\* Vec::pop() on a non-empty vector: the vector that is left.
VecPop(s) == SubSeq(s, 1, Len(s) - 1)

\* slice::swap(a, b), 0-based.
VecSwap(s, a, b) == [s EXCEPT ![a + 1] = s[b + 1], ![b + 1] = s[a + 1]]

\* slice::reverse().
VecReverse(s) == [i \in 1..Len(s) |-> s[Len(s) + 1 - i]]

\* Allocated capacity of the outer vector after Vec::reserve / push / insert /
\* resize_with asked for room for `additional` more elements (amortized
\* growth: at least double, at least 4 for an element the size of a Vec).
GrowAmortized(cap, len, additional) ==
    IF cap - len >= additional THEN cap
    ELSE Max(4, Max(2 * cap, len + additional))

\* Allocated capacity of the outer vector after Vec::reserve_exact.
ReserveExact(cap, len, additional) ==
    IF cap - len >= additional THEN cap ELSE len + additional

(* --------------------------- the grid --------------------------------- *)
\* struct Grid { size, rows, row_capacity }; rows_cap is rows.capacity(),
\* the allocated capacity of the outer vector, which reserve() reads.
Grid(sz, rs, rc, cap) ==
    [size |-> sz, rows |-> rs, row_capacity |-> rc, rows_cap |-> cap]

Ok(g, ret) == [g |-> g, err |-> "none", ret |-> ret]
Panic(g, e) == [g |-> g, err |-> e, ret |-> <<>>]

\* Grid::new
new == Grid(Size(0, 0), <<>>, 0, 0)

\* Grid::with_size
with_size(sz, v) ==
    Grid(sz, [i \in 1..sz.height |-> Repeat(v, sz.width)], sz.width, sz.height)

\* Grid::with_capacity
with_capacity(c) ==
    Grid(Size(0, 0), [i \in 1..c.height |-> <<>>], c.width, c.height)

\* Grid::from_rows on a non-empty list of rows of equal length, built with
\* vec![..] (allocated capacity = length).
from_rows(rs) ==
    Grid(Size(Len(rs[1]), Len(rs)), rs, Len(rs[1]), Len(rs))

\* the assertion comparing every row with the number of rows
Grid_from_rows_square(rs) ==
    IF Len(rs) = 0 THEN Panic(new, "UnwrapNone")
    ELSE IF ~(\A i \in 1..Len(rs) : Len(rs[i]) = Len(rs))
    THEN Panic(new, "ShapeError")
    ELSE Ok(from_rows(rs), <<>>)

\* Grid::from_rows on any list of rows: rows.first().unwrap() fails on the
\* empty list, the assertion fails on rows of different lengths; a call that
\* fails returns no grid (g is a placeholder).
Grid_from_rows(rs) ==
    IF Len(rs) = 0 THEN Panic(new, "UnwrapNone")
    ELSE IF ~(\A i \in 1..Len(rs) : Len(rs[i]) = Len(rs[1]))
    THEN Panic(new, "ShapeError")
    ELSE Ok(from_rows(rs), <<>>)

\* Grid::capacity
capacity(g) == Size(g.row_capacity, Len(g.rows))

\* Grid::resize without the loop that truncates the rows beyond the new height.
resize_keeps_spare_data(g, sz, v) ==
    LET rc == IF g.row_capacity < sz.width THEN sz.width ELSE g.row_capacity
        n  == Len(g.rows)
        r1 == IF sz.height > n
              THEN g.rows \o [i \in 1..(sz.height - n) |-> Repeat(v, sz.width)]
              ELSE g.rows
        r2 == [i \in 1..Len(r1) |->
                 IF i <= sz.height THEN VecResize(r1[i], sz.width, v) ELSE r1[i]]
        cap == IF sz.height > n
               THEN GrowAmortized(g.rows_cap, n, sz.height - n)
               ELSE g.rows_cap
    IN  Ok(Grid(sz, r2, rc, cap), <<>>)

\* Grid::resize that stores the new width as row_capacity even when it shrinks.
resize_sets_row_capacity(g, sz, v) ==
    LET n  == Len(g.rows)
        r1 == IF sz.height > n
              THEN g.rows \o [i \in 1..(sz.height - n) |-> Repeat(v, sz.width)]
              ELSE g.rows
        r2 == [i \in 1..Len(r1) |->
                 IF i <= sz.height THEN VecResize(r1[i], sz.width, v) ELSE <<>>]
        cap == IF sz.height > n
               THEN GrowAmortized(g.rows_cap, n, sz.height - n)
               ELSE g.rows_cap
    IN  Ok(Grid(sz, r2, sz.width, cap), <<>>)

\* Grid::resize
resize(g, sz, v) ==
    LET rc == IF g.row_capacity < sz.width THEN sz.width ELSE g.row_capacity
        n  == Len(g.rows)
        r1 == IF sz.height > n
              THEN g.rows \o [i \in 1..(sz.height - n) |-> Repeat(v, sz.width)]
              ELSE g.rows
        r2 == [i \in 1..Len(r1) |->
                 IF i <= sz.height THEN VecResize(r1[i], sz.width, v) ELSE <<>>]
        cap == IF sz.height > n
               THEN GrowAmortized(g.rows_cap, n, sz.height - n)
               ELSE g.rows_cap
    IN  Ok(Grid(sz, r2, rc, cap), <<>>)

\* Grid::fill
fill(g, v) ==
    Ok([g EXCEPT !.rows = [i \in 1..Len(g.rows) |->
                             IF i <= g.size.height
                             THEN Repeat(v, Len(g.rows[i]))
                             ELSE g.rows[i]]], <<>>)

\* Grid::clear setting the size only, the rows keeping their elements
clear_keeps_elements(g) ==
    Ok([g EXCEPT !.size = Size(0, 0)], <<>>)

\* Grid::clear
clear(g) ==
    Ok([g EXCEPT !.rows = [i \in 1..Len(g.rows) |-> <<>>],
                 !.size = Size(0, 0)], <<>>)

\* Grid::value with an off-by-one bounds check that rejects the last column.
value_off_by_one(g, c) ==
    IF ~(c.x + 1 < g.size.width) THEN Panic(g, "OutOfBounds")
    ELSE IF ~(c.y < g.size.height) THEN Panic(g, "OutOfBounds")
    ELSE Ok(g, <<g.rows[c.y + 1][c.x + 1]>>)

\* Grid::value
value(g, c) ==
    IF ~(c.x < g.size.width) THEN Panic(g, "OutOfBounds")
    ELSE IF ~(c.y < g.size.height) THEN Panic(g, "OutOfBounds")
    ELSE Ok(g, <<g.rows[c.y + 1][c.x + 1]>>)

\* Grid::value_mut (the reference it returns is modelled by the element)
value_mut(g, c) ==
    IF ~(c.x < g.size.width) THEN Panic(g, "OutOfBounds")
    ELSE IF ~(c.y < g.size.height) THEN Panic(g, "OutOfBounds")
    ELSE Ok(g, <<g.rows[c.y + 1][c.x + 1]>>)

\* Grid::set_value writing the value to every element of the row
set_value_whole_row(g, c, v) ==
    IF ~(c.x < g.size.width) THEN Panic(g, "OutOfBounds")
    ELSE IF ~(c.y < g.size.height) THEN Panic(g, "OutOfBounds")
    ELSE Ok([g EXCEPT !.rows[c.y + 1] = Repeat(v, g.size.width)], <<>>)

\* Grid::set_value
set_value(g, c, v) ==
    IF ~(c.x < g.size.width) THEN Panic(g, "OutOfBounds")
    ELSE IF ~(c.y < g.size.height) THEN Panic(g, "OutOfBounds")
    ELSE Ok([g EXCEPT !.rows[c.y + 1][c.x + 1] = v], <<>>)

\* Grid::swap_value that copies b into a and never writes a's old value to b.
swap_value_one_write(g, a, b) ==
    IF ~(a.x < g.size.width) THEN Panic(g, "OutOfBounds")
    ELSE IF ~(a.y < g.size.height) THEN Panic(g, "OutOfBounds")
    ELSE IF ~(b.x < g.size.width) THEN Panic(g, "OutOfBounds")
    ELSE IF ~(b.y < g.size.height) THEN Panic(g, "OutOfBounds")
    ELSE Ok([g EXCEPT !.rows[a.y + 1][a.x + 1] = g.rows[b.y + 1][b.x + 1]], <<>>)

\* Grid::swap_value: two raw element addresses, then mem::swap, which reads
\* both places and writes both places (with a = b both reads and both writes
\* hit the same place, whatever their order).
swap_value(g, a, b) ==
    IF ~(a.x < g.size.width) THEN Panic(g, "OutOfBounds")
    ELSE IF ~(a.y < g.size.height) THEN Panic(g, "OutOfBounds")
    ELSE IF ~(b.x < g.size.width) THEN Panic(g, "OutOfBounds")
    ELSE IF ~(b.y < g.size.height) THEN Panic(g, "OutOfBounds")
    ELSE LET foo == g.rows[a.y + 1][a.x + 1]
             bar == g.rows[b.y + 1][b.x + 1]
             r1  == [g.rows EXCEPT ![a.y + 1][a.x + 1] = bar]
             r2  == [r1 EXCEPT ![b.y + 1][b.x + 1] = foo]
         IN  Ok([g EXCEPT !.rows = r2], <<>>)


\* Grid::swap_row
swap_row(g, a, b) ==
    IF ~(a < g.size.height) THEN Panic(g, "OutOfBounds")
    ELSE IF ~(b < g.size.height) THEN Panic(g, "OutOfBounds")
    ELSE Ok([g EXCEPT !.rows = VecSwap(g.rows, a, b)], <<>>)

\* Grid::insert_row that takes the spare row out of the pool before it checks
\* its arguments.
insert_row_pops_first(g, index, row) ==
    LET spare == g.size.height < Len(g.rows)
        g1    == IF spare THEN [g EXCEPT !.rows = VecPop(@)] ELSE g
    IN  IF index > g.size.height THEN Panic(g1, "OutOfBounds")
        ELSE IF Len(row) # g.size.width THEN Panic(g1, "ShapeError")
        ELSE IF spare
             THEN Ok([g1 EXCEPT !.rows = VecInsert(@, index, row),
                                !.size.height = @ + 1], <<>>)
             ELSE Ok([g EXCEPT !.rows = VecInsert(g.rows, index, row),
                               !.rows_cap = GrowAmortized(@, Len(g.rows), 1),
                               !.size.height = @ + 1], <<>>)

\* Grid::insert_row that never reuses a spare row of the pool.
insert_row_always_grows(g, index, row) ==
    IF index > g.size.height THEN Panic(g, "OutOfBounds")
    ELSE IF Len(row) # g.size.width THEN Panic(g, "ShapeError")
    ELSE Ok([g EXCEPT !.rows = VecInsert(g.rows, index, row),
                      !.rows_cap = GrowAmortized(@, Len(g.rows), 1),
                      !.size.height = @ + 1], <<>>)

\* Grid::insert_row
insert_row(g, index, row) ==
    IF index > g.size.height THEN Panic(g, "OutOfBounds")
    ELSE IF Len(row) # g.size.width THEN Panic(g, "ShapeError")
    ELSE IF g.size.height < Len(g.rows)
         THEN Ok([g EXCEPT !.rows = VecInsert(VecPop(g.rows), index, row),
                           !.size.height = @ + 1], <<>>)
         ELSE Ok([g EXCEPT !.rows = VecInsert(g.rows, index, row),
                           !.rows_cap = GrowAmortized(@, Len(g.rows), 1),
                           !.size.height = @ + 1], <<>>)

\* Grid::remove_row that does not give a fresh row back to the pool.
remove_row_no_spare(g, index) ==
    IF ~(index < g.size.height) THEN Panic(g, "OutOfBounds")
    ELSE Ok([g EXCEPT !.rows = VecRemove(g.rows, index),
                      !.size.height = @ - 1], <<>>)

\* Grid::remove_row that removes the last row of the grid, whatever the index.
remove_row_last(g, index) ==
    IF ~(index < g.size.height) THEN Panic(g, "OutOfBounds")
    ELSE Ok([g EXCEPT !.rows = Append(VecRemove(g.rows, g.size.height - 1), <<>>),
                      !.size.height = @ - 1], <<>>)

\* Grid::remove_row
remove_row(g, index) ==
    IF ~(index < g.size.height) THEN Panic(g, "OutOfBounds")
    ELSE Ok([g EXCEPT !.rows = Append(VecRemove(g.rows, index), <<>>),
                      !.size.height = @ - 1], <<>>)

\* Grid::swap_column
swap_column(g, a, b) ==
    IF ~(a < g.size.width) THEN Panic(g, "OutOfBounds")
    ELSE IF ~(b < g.size.width) THEN Panic(g, "OutOfBounds")
    ELSE Ok([g EXCEPT !.rows = [i \in 1..Len(g.rows) |->
                                  IF i <= g.size.height
                                  THEN VecSwap(g.rows[i], a, b)
                                  ELSE g.rows[i]]], <<>>)

\* Grid::insert_column that leaves row_capacity alone.
insert_column_keeps_capacity(g, index, column) ==
    IF index > g.size.width THEN Panic(g, "OutOfBounds")
    ELSE IF Len(column) # g.size.height THEN Panic(g, "ShapeError")
    ELSE Ok([g EXCEPT !.rows = [i \in 1..Len(g.rows) |->
                                  IF i <= g.size.height
                                  THEN VecInsert(g.rows[i], index, column[i])
                                  ELSE g.rows[i]],
                      !.size.width = @ + 1], <<>>)

\* Grid::insert_column that takes the elements from the end of the column
\* (column.pop()) instead of from its front (column.remove(0)).
insert_column_reversed(g, index, column) ==
    IF index > g.size.width THEN Panic(g, "OutOfBounds")
    ELSE IF Len(column) # g.size.height THEN Panic(g, "ShapeError")
    ELSE LET rc == IF g.size.width + 1 > g.row_capacity
                   THEN g.row_capacity + 1
                   ELSE g.row_capacity
         IN  Ok([g EXCEPT !.row_capacity = rc,
                          !.rows = [i \in 1..Len(g.rows) |->
                                      IF i <= g.size.height
                                      THEN VecInsert(g.rows[i], index,
                                                     column[Len(column) + 1 - i])
                                      ELSE g.rows[i]],
                          !.size.width = @ + 1], <<>>)

\* Grid::insert_column whose loop stops after the first row.
insert_column_first_row(g, index, column) ==
    IF index > g.size.width THEN Panic(g, "OutOfBounds")
    ELSE IF Len(column) # g.size.height THEN Panic(g, "ShapeError")
    ELSE LET rc == IF g.size.width + 1 > g.row_capacity
                   THEN g.row_capacity + 1
                   ELSE g.row_capacity
         IN  Ok([g EXCEPT !.row_capacity = rc,
                          !.rows = [i \in 1..Len(g.rows) |->
                                      IF i = 1 /\ i <= g.size.height
                                      THEN VecInsert(g.rows[i], index, column[i])
                                      ELSE g.rows[i]],
                          !.size.width = @ + 1], <<>>)

\* Grid::insert_column
insert_column(g, index, column) ==
    IF index > g.size.width THEN Panic(g, "OutOfBounds")
    ELSE IF Len(column) # g.size.height THEN Panic(g, "ShapeError")
    ELSE LET rc == IF g.size.width + 1 > g.row_capacity
                   THEN g.row_capacity + 1
                   ELSE g.row_capacity
         IN  Ok([g EXCEPT !.row_capacity = rc,
                          !.rows = [i \in 1..Len(g.rows) |->
                                      IF i <= g.size.height
                                      THEN VecInsert(g.rows[i], index, column[i])
                                      ELSE g.rows[i]],
                          !.size.width = @ + 1], <<>>)

\* Grid::remove_column
remove_column(g, index) ==
    IF ~(index < g.size.width) THEN Panic(g, "OutOfBounds")
    ELSE Ok([g EXCEPT !.rows = [i \in 1..Len(g.rows) |->
                                  IF i <= g.size.height
                                  THEN VecRemove(g.rows[i], index)
                                  ELSE g.rows[i]],
                      !.size.width = @ - 1], <<>>)

\* RowMut::reverse that calls the slice's rotate_left(1) instead of reverse().
RowMut_reverse_rotates(g, index) ==
    [g EXCEPT !.rows[index + 1] =
        IF Len(@) = 0 THEN @ ELSE SubSeq(@, 2, Len(@)) \o <<@[1]>>]

\* RowMut::reverse through Grid::row_slice
RowMut_reverse(g, index) ==
    [g EXCEPT !.rows[index + 1] = VecReverse(@)]

\* Grid::flip_horizontally: rows 0 .. height-1, one after the other
RECURSIVE flip_horizontally_from(_, _)
flip_horizontally_from(g, index) ==
    IF index < g.size.height
    THEN flip_horizontally_from(RowMut_reverse(g, index), index + 1)
    ELSE g

flip_horizontally(g) == Ok(flip_horizontally_from(g, 0), <<>>)

\* ColumnMut::swap
ColumnMut_swap(g, column, a, b) ==
    swap_value(g, Coordinate(column, a), Coordinate(column, b)).g

\* ColumnMut::reverse: the while loop, entered with the given index
RECURSIVE ColumnMut_reverse_from(_, _, _)
ColumnMut_reverse_from(g, column, index) ==
    LET length == g.size.height
    IN  IF index < length \div 2
        THEN ColumnMut_reverse_from(
                 ColumnMut_swap(g, column, index, length - index - 1),
                 column, index + 1)
        ELSE g

\* the loop running to length instead of length / 2
ColumnMut_reverse_full_loop(g, column) ==
    ColumnMut_reverse_from(ColumnMut_reverse_from(g, column, 0), column, 0)

ColumnMut_reverse(g, column) == ColumnMut_reverse_from(g, column, 0)

\* Grid::flip_vertically: columns 0 .. width-1, one after the other
RECURSIVE flip_vertically_from(_, _)
flip_vertically_from(g, index) ==
    IF index < g.size.width
    THEN flip_vertically_from(ColumnMut_reverse(g, index), index + 1)
    ELSE g

flip_vertically(g) == Ok(flip_vertically_from(g, 0), <<>>)

\* One pass of the inner loop body of rotate_left / rotate_right:
\* grid.rows[j].push(self.rows[i].pop().unwrap()).  st.src is self.rows,
\* st.dst is grid.rows; unwrap panics on an empty source row.
rotate_step(st, i, j) ==
    IF st.err # "none" THEN st
    ELSE IF Len(st.src[i + 1]) = 0 THEN [st EXCEPT !.err = "UnwrapNone"]
    ELSE [src |-> [st.src EXCEPT ![i + 1] = VecPop(@)],
          dst |-> [st.dst EXCEPT ![j + 1] =
                      Append(@, st.src[i + 1][Len(st.src[i + 1])])],
          err |-> "none"]

\* The loops of rotate_left from their k-th pass on: i ascending, j ascending.
RECURSIVE rotate_left_loop(_, _, _, _)
rotate_left_loop(st, k, w, h) ==
    IF k < w * h
    THEN rotate_left_loop(rotate_step(st, k \div w, k % w), k + 1, w, h)
    ELSE st

\* The loops of rotate_right from their k-th pass on: i and j descending.
RECURSIVE rotate_right_loop(_, _, _, _)
rotate_right_loop(st, k, w, h) ==
    IF k < w * h
    THEN rotate_right_loop(
             rotate_step(st, h - 1 - (k \div w), w - 1 - (k % w)), k + 1, w, h)
    ELSE st

\* The end of a rotation: grid.size = size; mem::swap(self, &mut grid); a
\* panic in the loop leaves self with the rows popped so far.
rotate_finish(g, sz, grid, st) ==
    IF st.err # "none" THEN Panic([g EXCEPT !.rows = st.src], st.err)
    ELSE Ok([grid EXCEPT !.rows = st.dst, !.size = sz], <<>>)

\* Grid::rotate_left whose loops run like those of rotate_right (i and j
\* descending).
rotate_left_descending(g) ==
    LET sz   == Size(g.size.height, g.size.width)
        grid == with_capacity(sz)
        st   == rotate_right_loop([src |-> g.rows, dst |-> grid.rows, err |-> "none"],
                                  0, g.size.width, g.size.height)
    IN  rotate_finish(g, sz, grid, st)

\* Grid::rotate_left
rotate_left(g) ==
    LET sz   == Size(g.size.height, g.size.width)
        grid == with_capacity(sz)
        st   == rotate_left_loop([src |-> g.rows, dst |-> grid.rows, err |-> "none"],
                                 0, g.size.width, g.size.height)
    IN  rotate_finish(g, sz, grid, st)

\* Grid::rotate_right whose loops run like those of rotate_left (i and j
\* ascending).
rotate_right_ascending(g) ==
    LET sz   == Size(g.size.height, g.size.width)
        grid == with_capacity(sz)
        st   == rotate_left_loop([src |-> g.rows, dst |-> grid.rows, err |-> "none"],
                                 0, g.size.width, g.size.height)
    IN  rotate_finish(g, sz, grid, st)

\* Grid::rotate_right
rotate_right(g) ==
    LET sz   == Size(g.size.height, g.size.width)
        grid == with_capacity(sz)
        st   == rotate_right_loop([src |-> g.rows, dst |-> grid.rows, err |-> "none"],
                                  0, g.size.width, g.size.height)
    IN  rotate_finish(g, sz, grid, st)

\* row_capacity left as it was
reserve_keeps_row_capacity(g, additional) ==
    LET foobar == ReserveExact(g.rows_cap, Len(g.rows), additional.height)
    IN  Ok([g EXCEPT !.rows_cap = foobar,
                     !.rows = @ \o [i \in 1..(foobar - Len(g.rows)) |-> <<>>]],
           <<>>)

\* Grid::reserve (the per-row reserve_exact changes no modelled state)
reserve(g, additional) ==
    LET foobar == ReserveExact(g.rows_cap, Len(g.rows), additional.height)
    IN  Ok([g EXCEPT !.row_capacity = @ + additional.width,
                     !.rows_cap = foobar,
                     !.rows = @ \o [i \in 1..(foobar - Len(g.rows)) |-> <<>>]],
           <<>>)

\* Index<Coordinate>::index: rows[coordinate.y][coordinate.x], each of the two
\* Vec indexings failing beyond the length of its vector; no check against
\* size.
Grid_index(g, coordinate) ==
    IF ~(coordinate.y < Len(g.rows)) THEN Panic(g, "OutOfBounds")
    ELSE IF ~(coordinate.x < Len(g.rows[coordinate.y + 1]))
    THEN Panic(g, "OutOfBounds")
    ELSE Ok(g, <<g.rows[coordinate.y + 1][coordinate.x + 1]>>)

\* IndexMut<Coordinate>::index_mut (the reference it returns is modelled by
\* the element)
Grid_index_mut(g, coordinate) ==
    IF ~(coordinate.y < Len(g.rows)) THEN Panic(g, "OutOfBounds")
    ELSE IF ~(coordinate.x < Len(g.rows[coordinate.y + 1]))
    THEN Panic(g, "OutOfBounds")
    ELSE Ok(g, <<g.rows[coordinate.y + 1][coordinate.x + 1]>>)

\* Grid::from_columns
from_columns(columns) ==
    rotate_left(flip_horizontally(from_rows(columns)).g).g

\* the rows rotated without being flipped first
Grid_from_columns_no_flip(columns) ==
    LET r == Grid_from_rows(columns)
    IN  IF r.err # "none" THEN r
        ELSE rotate_left(r.g)

\* Grid::from_columns on any list of columns
Grid_from_columns(columns) ==
    LET r == Grid_from_rows(columns)
    IN  IF r.err # "none" THEN r
        ELSE rotate_left(flip_horizontally(r.g).g)

(* ----------------------------- the views ------------------------------ *)
\* A view (Row, RowMut, Column, ColumnMut) is a borrow of the grid and an
\* index; a method that returns a view returns its index, a method that
\* returns Option<view> returns <<>> for None and <<index>> for Some.

\* Grid::row
Grid_row(g, index) ==
    IF ~(index < g.size.height) THEN Panic(g, "OutOfBounds")
    ELSE Ok(g, <<index>>)

\* Grid::row_mut
Grid_row_mut(g, index) ==
    IF ~(index < g.size.height) THEN Panic(g, "OutOfBounds")
    ELSE Ok(g, <<index>>)

\* Grid::column
Grid_column(g, index) ==
    IF ~(index < g.size.width) THEN Panic(g, "OutOfBounds")
    ELSE Ok(g, <<index>>)

\* Grid::column_mut
Grid_column_mut(g, index) ==
    IF ~(index < g.size.width) THEN Panic(g, "OutOfBounds")
    ELSE Ok(g, <<index>>)

\* Row::length, RowMut::length
Row_length(g) == g.size.width

\* Column::length, ColumnMut::length
Column_length(g) == g.size.height

\* Row::top
Row_top(g, index) ==
    IF index = 0 THEN Ok(g, <<>>) ELSE Grid_row(g, index - 1)

\* Row::bottom: self.index == self.length() - 1.  With length() = 0 the
\* subtraction overflows: a build with overflow checks panics, a build without
\* them wraps to usize::MAX, which no index equals, and goes on to
\* grid.row(index + 1).
Row_bottom(g, index, overflow_checks) ==
    IF Row_length(g) = 0
    THEN IF overflow_checks THEN Panic(g, "Overflow")
         ELSE Grid_row(g, index + 1)
    ELSE IF index = Row_length(g) - 1 THEN Ok(g, <<>>)
    ELSE Grid_row(g, index + 1)

\* RowMut::top
RowMut_top(g, index) ==
    IF index = 0 THEN Ok(g, <<>>) ELSE Grid_row(g, index - 1)

\* RowMut::top_mut
RowMut_top_mut(g, index) ==
    IF index = 0 THEN Ok(g, <<>>) ELSE Grid_row_mut(g, index - 1)

\* RowMut::bottom
RowMut_bottom(g, index, overflow_checks) ==
    IF Row_length(g) = 0
    THEN IF overflow_checks THEN Panic(g, "Overflow")
         ELSE Grid_row(g, index + 1)
    ELSE IF index = Row_length(g) - 1 THEN Ok(g, <<>>)
    ELSE Grid_row(g, index + 1)

\* RowMut::bottom_mut
RowMut_bottom_mut(g, index, overflow_checks) ==
    IF Row_length(g) = 0
    THEN IF overflow_checks THEN Panic(g, "Overflow")
         ELSE Grid_row_mut(g, index + 1)
    ELSE IF index = Row_length(g) - 1 THEN Ok(g, <<>>)
    ELSE Grid_row_mut(g, index + 1)

\* Column::left
Column_left(g, index) ==
    IF index = 0 THEN Ok(g, <<>>) ELSE Grid_column(g, index - 1)

\* Column::right (a column view exists only in a grid of width >= 1, so
\* width - 1 does not overflow)
Column_right(g, index) ==
    IF index = g.size.width - 1 THEN Ok(g, <<>>) ELSE Grid_column(g, index + 1)

\* ColumnMut::left
ColumnMut_left(g, index) ==
    IF index = 0 THEN Ok(g, <<>>) ELSE Grid_column(g, index - 1)

\* ColumnMut::left_mut
ColumnMut_left_mut(g, index) ==
    IF index = 0 THEN Ok(g, <<>>) ELSE Grid_column_mut(g, index - 1)

\* ColumnMut::right
ColumnMut_right(g, index) ==
    IF index = g.size.width - 1 THEN Ok(g, <<>>) ELSE Grid_column(g, index + 1)

\* ColumnMut::right_mut
ColumnMut_right_mut(g, index) ==
    IF index = g.size.width - 1 THEN Ok(g, <<>>) ELSE Grid_column_mut(g, index + 1)

\* ColumnMut::swap_value
ColumnMut_swap_value(g, index, a, b) ==
    swap_value(g, Coordinate(index, a), Coordinate(index, b))

\* The loop of ColumnMut::rotate_top from the pass with the given i and j on;
\* r is the result so far.
RECURSIVE ColumnMut_rotate_top_from(_, _, _, _)
ColumnMut_rotate_top_from(r, index, i, j) ==
    LET length == Column_length(r.g)
    IN  IF r.err = "none" /\ j < length - 1
        THEN ColumnMut_rotate_top_from(
                 ColumnMut_swap_value(r.g, index, i % length, j),
                 index, i + 1, j + 1)
        ELSE r

\* ColumnMut::rotate_top.  With length() = 0 the range 0..length-1 overflows:
\* a build with overflow checks panics there, a build without them wraps to
\* 0..usize::MAX and panics in the first pass on i % length.
ColumnMut_rotate_top(g, index, number, overflow_checks) ==
    LET length == Column_length(g)
    IN  IF ~(number <= length) THEN Panic(g, "OutOfBounds")
        ELSE IF length = 0
             THEN IF overflow_checks THEN Panic(g, "Overflow")
                  ELSE Panic(g, "RemainderByZero")
        ELSE ColumnMut_rotate_top_from(Ok(g, <<>>), index, number, 0)

\* The loop of ColumnMut::rotate_bottom from the pass with the given i and j
\* on (j descending to 1); r is the result so far.
RECURSIVE ColumnMut_rotate_bottom_from(_, _, _, _)
ColumnMut_rotate_bottom_from(r, index, i, j) ==
    LET length == Column_length(r.g)
    IN  IF r.err = "none" /\ j >= 1
        THEN ColumnMut_rotate_bottom_from(
                 ColumnMut_swap_value(r.g, index, i % length, j),
                 index, i - 1, j - 1)
        ELSE r

\* ColumnMut::rotate_bottom (its assert on number is commented out)
ColumnMut_rotate_bottom(g, index, number) ==
    LET length == Column_length(g)
    IN  ColumnMut_rotate_bottom_from(Ok(g, <<>>), index, number + length,
                                     length - 1)

(* --------------------------- the iterators ---------------------------- *)
\* An iterator borrows the grid and holds a position: IteratorGrid a
\* coordinate, IteratorRow / IteratorColumn a view (its index) and an index.
\* A result of next() is [it, err, ret]: the iterator after the call, the
\* panic if any, and the Option it returns (<<>> for None, <<item>> for Some).
\* The item &T is a reference into the grid: the coordinate it points at and
\* the element there.
Ref(c, r) == [at |-> c, val |-> r.ret[1]]

\* No iterator is alive.
NoIterator ==
    [kind |-> "none", enumerate |-> FALSE, coordinate |-> Coordinate(0, 0),
     view |-> 0, index |-> 0]

\* IteratorGrid::new
IteratorGrid_new ==
    [kind |-> "grid", enumerate |-> FALSE, coordinate |-> Coordinate(0, 0),
     view |-> 0, index |-> 0]

\* IteratorRow::new
IteratorRow_new(view) ==
    [kind |-> "row", enumerate |-> FALSE, coordinate |-> Coordinate(0, 0),
     view |-> view, index |-> 0]

\* IteratorColumn::new
IteratorColumn_new(view) ==
    [kind |-> "column", enumerate |-> FALSE, coordinate |-> Coordinate(0, 0),
     view |-> view, index |-> 0]

\* EnumerateCoordinate::new (GridIterator::enumerate_coordinate)
EnumerateCoordinate_new(it) == [it EXCEPT !.enumerate = TRUE]

\* Row::value
Row_value(g, view, index) == value(g, Coordinate(index, view))

\* Column::value
Column_value(g, view, index) == value(g, Coordinate(view, index))

\* What next() returns with the iterator it leaves.
None(it) == [it |-> it, err |-> "none", ret |-> <<>>]
Some(it, item) == [it |-> it, err |-> "none", ret |-> <<item>>]
Unwind(it, e) == [it |-> it, err |-> e, ret |-> <<>>]

\* IteratorGrid::next that does not go to the next row at the end of a row.
IteratorGrid_next_no_wrap(g, it) ==
    IF it.coordinate.y = g.size.height THEN None(it)
    ELSE LET r == value(g, it.coordinate)
         IN  IF r.err # "none" THEN Unwind(it, r.err)
             ELSE Some([it EXCEPT !.coordinate.x = @ + 1],
                       Ref(it.coordinate, r))

\* IteratorGrid::next
IteratorGrid_next(g, it) ==
    IF it.coordinate.y = g.size.height THEN None(it)
    ELSE LET r  == value(g, it.coordinate)
             x1 == it.coordinate.x + 1
             c1 == IF x1 = g.size.width
                   THEN Coordinate(0, it.coordinate.y + 1)
                   ELSE Coordinate(x1, it.coordinate.y)
         IN  IF r.err # "none" THEN Unwind(it, r.err)
             ELSE Some([it EXCEPT !.coordinate = c1], Ref(it.coordinate, r))

\* IteratorRow::next
IteratorRow_next(g, it) ==
    IF it.index = Row_length(g) THEN None(it)
    ELSE LET r == Row_value(g, it.view, it.index)
         IN  IF r.err # "none" THEN Unwind(it, r.err)
             ELSE Some([it EXCEPT !.index = @ + 1],
                       Ref(Coordinate(it.index, it.view), r))

\* IteratorColumn::next
IteratorColumn_next(g, it) ==
    IF it.index = Column_length(g) THEN None(it)
    ELSE LET r == Column_value(g, it.view, it.index)
         IN  IF r.err # "none" THEN Unwind(it, r.err)
             ELSE Some([it EXCEPT !.index = @ + 1],
                       Ref(Coordinate(it.view, it.index), r))

\* IteratorGrid::coordinate
IteratorGrid_coordinate(it) == it.coordinate

\* IteratorRow::coordinate
IteratorRow_coordinate(it) == Coordinate(it.index, it.view)

\* IteratorColumn::coordinate
IteratorColumn_coordinate(it) == Coordinate(it.view, it.index)

\* <I as Iterator>::next for the three iterators
Iterator_next(g, it) ==
    CASE it.kind = "grid" -> IteratorGrid_next(g, it)
      [] it.kind = "row" -> IteratorRow_next(g, it)
      [] it.kind = "column" -> IteratorColumn_next(g, it)

\* <I as GridIterator>::coordinate for the three iterators
Iterator_coordinate(it) ==
    CASE it.kind = "grid" -> IteratorGrid_coordinate(it)
      [] it.kind = "row" -> IteratorRow_coordinate(it)
      [] it.kind = "column" -> IteratorColumn_coordinate(it)

\* EnumerateCoordinate::next that reads the coordinate after the inner next().
EnumerateCoordinate_next_reads_after(g, it) ==
    LET r          == Iterator_next(g, it)
        coordinate == Iterator_coordinate(r.it)
    IN  IF r.err # "none" \/ Len(r.ret) = 0 THEN r
        ELSE Some(r.it, <<coordinate, r.ret[1]>>)

\* EnumerateCoordinate::next
EnumerateCoordinate_next(g, it) ==
    LET coordinate == Iterator_coordinate(it)
        r          == Iterator_next(g, it)
    IN  IF r.err # "none" \/ Len(r.ret) = 0 THEN r
        ELSE Some(r.it, <<coordinate, r.ret[1]>>)

\* Iterator::collect on an IteratorGrid: next() until it returns None.
RECURSIVE collect(_, _, _)
collect(g, it, items) ==
    LET r == IteratorGrid_next(g, it)
    IN  IF r.err # "none" THEN Panic(g, r.err)
        ELSE IF Len(r.ret) = 0 THEN Ok(g, <<items>>)
        ELSE collect(g, r.it, Append(items, r.ret[1]))

\* Grid::values
values(g) == collect(g, IteratorGrid_new, <<>>)

(* ----------------------------- state ---------------------------------- *)
VARIABLES size, rows, row_capacity, rows_cap, pre, last, it, trace, rotation

vars == <<size, rows, row_capacity, rows_cap, pre, last, it, trace,
         rotation>>

\* The grid the program holds.
Self == Grid(size, rows, row_capacity, rows_cap)

\* All vectors of length n over Values.
Vecs(n) == [1..n -> Values]

\* The record of a call: the method, its arguments, how it ended and what it
\* returned.
Call(op, args, r) == [op |-> op, args |-> args, err |-> r.err, ret |-> r.ret]

\* No call is in progress and no result of a call is held.
Idle == [op |-> "idle", args |-> <<>>, err |-> "none", ret |-> <<>>]

Holds(g) ==
    /\ size = g.size
    /\ rows = g.rows
    /\ row_capacity = g.row_capacity
    /\ rows_cap = g.rows_cap

\* No rotate_left / rotate_right is in progress.  While one is, rotation
\* holds its locals: size, grid (the grid being built) and the number of
\* passes of the inner loop body made so far; self is the grid the program
\* holds.
NoRotation == [pc |-> "none", size |-> Size(0, 0), grid |-> new, passes |-> 0]

\* The grid as one of the constructors returns it; no iterator is alive,
\* none has produced an item and no rotation is in progress.
Init ==
    /\ it = NoIterator
    /\ trace = <<>>
    /\ rotation = NoRotation
    /\ \/ /\ Holds(new)
          /\ pre = new
          /\ last = Call("new", <<>>, Ok(new, <<>>))
       \/ \E sz \in Sizes, v \in Values :
            /\ Holds(with_size(sz, v))
            /\ pre = new
            /\ last = Call("with_size", <<sz, v>>, Ok(new, <<>>))
       \/ \E sz \in Sizes :
            /\ Holds(with_capacity(sz))
            /\ pre = new
            /\ last = Call("with_capacity", <<sz>>, Ok(new, <<>>))
       \/ \E sz \in Sizes : \E rs \in [1..sz.height -> Vecs(sz.width)] :
            /\ sz.height > 0
            /\ Holds(from_rows(rs))
            /\ pre = new
            /\ last = Call("from_rows", <<rs>>, Ok(new, <<>>))
       \/ \E sz \in Sizes : \E cs \in [1..sz.width -> Vecs(sz.height)] :
            /\ sz.width > 0
            /\ Holds(from_columns(cs))
            /\ pre = new
            /\ last = Call("from_columns", <<cs>>, Ok(new, <<>>))

\* The caller holds no result of a previous call: the borrow of the grid that
\* the previous call's result carried has ended, so a method may be called.
Idling == last.op = "idle"

\* The caller calls method op with args on the grid it holds; r is what the
\* method does to that grid.
Apply(op, args, r) ==
    /\ r.g.size \in Sizes
    /\ r.g.row_capacity <= MaxCap
    /\ Len(r.g.rows) <= MaxCap
    /\ pre' = Self
    /\ last' = Call(op, args, r)
    /\ size' = r.g.size
    /\ rows' = r.g.rows
    /\ row_capacity' = r.g.row_capacity
    /\ rows_cap' = r.g.rows_cap
    /\ UNCHANGED <<it, trace, rotation>>

\* The caller drops what the previous call returned, an iterator included;
\* the grid is untouched.
Forget ==
    /\ last.op # "idle"
    /\ pre' = Self
    /\ last' = Idle
    /\ it' = NoIterator
    /\ trace' = <<>>
    /\ UNCHANGED <<size, rows, row_capacity, rows_cap, rotation>>

\* Coordinates a caller may pass: in bounds, on the boundary and beyond it.
Coords == {Coordinate(x, y) : x \in 0..MaxW, y \in 0..MaxH}

\* Vectors a caller may pass as a row or a column: every vector that is as long
\* as a row / column of some grid, and one that is too long for every grid.
RowVecs == UNION {Vecs(n) : n \in Widths} \cup {Repeat(1, MaxW + 1)}
ColumnVecs == UNION {Vecs(n) : n \in Heights} \cup {Repeat(1, MaxH + 1)}

\* The number of elements in a list of vectors.
RECURSIVE Cells(_)
Cells(vs) == IF vs = <<>> THEN 0 ELSE Len(Head(vs)) + Cells(Tail(vs))

\* Lists of vectors a caller may pass to from_rows and from_columns: of equal
\* and of different lengths, the empty list included.
VecLists ==
    {vs \in UNION {[1..n -> UNION {Vecs(k) : k \in 0..Max(MaxW, MaxH)}] :
                       n \in 0..Max(MaxW, MaxH)} :
        Cells(vs) <= MaxCells}

\* The caller builds a grid with a constructor and holds it in place of the
\* empty grid it held; a constructor that fails leaves it with the grid it
\* held.  (A constructor reads no grid: which grid the caller held makes no
\* difference to what it returns.)
Construct(op, args, r) ==
    Apply(op, args, IF r.err = "none" THEN r ELSE Panic(Self, r.err))

FromRows ==
    /\ Idling
    /\ Holds(new)
    /\ \E rs \in VecLists : Construct("from_rows", <<rs>>, Grid_from_rows(rs))

FromColumns ==
    /\ Idling
    /\ Holds(new)
    /\ \E columns \in VecLists :
           Construct("from_columns", <<columns>>, Grid_from_columns(columns))

Resize ==
    /\ Idling
    /\ \E sz \in Sizes, v \in Values :
           Apply("resize", <<sz, v>>, resize(Self, sz, v))

Fill ==
    /\ Idling
    /\ \E v \in Values : Apply("fill", <<v>>, fill(Self, v))

Clear ==
    /\ Idling
    /\ Apply("clear", <<>>, clear(Self))

Value ==
    /\ Idling
    /\ \E c \in Coords : Apply("value", <<c>>, value(Self, c))

ValueMut ==
    /\ Idling
    /\ \E c \in Coords : Apply("value_mut", <<c>>, value_mut(Self, c))

\* grid[c] and &mut grid[c]; c.y may address a row kept beyond the height.
IndexCoords == Coords \cup {Coordinate(x, MaxCap) : x \in 0..MaxW}

GridIndex ==
    /\ Idling
    /\ \E c \in IndexCoords : Apply("index", <<c>>, Grid_index(Self, c))

GridIndexMut ==
    /\ Idling
    /\ \E c \in IndexCoords :
           Apply("index_mut", <<c>>, Grid_index_mut(Self, c))

SetValue ==
    /\ Idling
    /\ \E c \in Coords, v \in Values :
           Apply("set_value", <<c, v>>, set_value(Self, c, v))

SwapValue ==
    /\ Idling
    /\ \E a \in Coords, b \in Coords :
           Apply("swap_value", <<a, b>>, swap_value(Self, a, b))

SwapRow ==
    /\ Idling
    /\ \E a \in 0..MaxH, b \in 0..MaxH :
           Apply("swap_row", <<a, b>>, swap_row(Self, a, b))

InsertRow ==
    /\ Idling
    /\ \E index \in 0..(MaxH + 1), row \in RowVecs :
           Apply("insert_row", <<index, row>>, insert_row(Self, index, row))

RemoveRow ==
    /\ Idling
    /\ \E index \in 0..MaxH : Apply("remove_row", <<index>>, remove_row(Self, index))

SwapColumn ==
    /\ Idling
    /\ \E a \in 0..MaxW, b \in 0..MaxW :
           Apply("swap_column", <<a, b>>, swap_column(Self, a, b))

InsertColumn ==
    /\ Idling
    /\ \E index \in 0..(MaxW + 1), column \in ColumnVecs :
           Apply("insert_column", <<index, column>>,
                 insert_column(Self, index, column))

RemoveColumn ==
    /\ Idling
    /\ \E index \in 0..MaxW :
           Apply("remove_column", <<index>>, remove_column(Self, index))

FlipHorizontally ==
    /\ Idling
    /\ Apply("flip_horizontally", <<>>, flip_horizontally(Self))

FlipVertically ==
    /\ Idling
    /\ Apply("flip_vertically", <<>>, flip_vertically(Self))

RotateLeft ==
    /\ Idling
    /\ Apply("rotate_left", <<>>, rotate_left(Self))

RotateRight ==
    /\ Idling
    /\ Apply("rotate_right", <<>>, rotate_right(Self))

Reserve ==
    /\ Idling
    /\ \E aw \in 0..MaxAdd, ah \in 0..MaxAdd :
           Apply("reserve", <<Size(aw, ah)>>, reserve(Self, Size(aw, ah)))

\* The indices of the row views / column views the grid hands out.
RowViews(g) == {index \in 0..MaxH : Grid_row(g, index).err = "none"}
ColumnViews(g) == {index \in 0..MaxW : Grid_column(g, index).err = "none"}

RowTop ==
    /\ Idling
    /\ \E index \in RowViews(Self) :
         \/ Apply("Row::top", <<index>>, Row_top(Self, index))
         \/ Apply("RowMut::top", <<index>>, RowMut_top(Self, index))
         \/ Apply("RowMut::top_mut", <<index>>, RowMut_top_mut(Self, index))

RowBottom ==
    /\ Idling
    /\ \E index \in RowViews(Self), overflow_checks \in BOOLEAN :
         \/ Apply("Row::bottom", <<index>>,
                  Row_bottom(Self, index, overflow_checks))
         \/ Apply("RowMut::bottom", <<index>>,
                  RowMut_bottom(Self, index, overflow_checks))
         \/ Apply("RowMut::bottom_mut", <<index>>,
                  RowMut_bottom_mut(Self, index, overflow_checks))

ColumnLeft ==
    /\ Idling
    /\ \E index \in ColumnViews(Self) :
         \/ Apply("Column::left", <<index>>, Column_left(Self, index))
         \/ Apply("ColumnMut::left", <<index>>, ColumnMut_left(Self, index))
         \/ Apply("ColumnMut::left_mut", <<index>>,
                  ColumnMut_left_mut(Self, index))

ColumnRight ==
    /\ Idling
    /\ \E index \in ColumnViews(Self) :
         \/ Apply("Column::right", <<index>>, Column_right(Self, index))
         \/ Apply("ColumnMut::right", <<index>>, ColumnMut_right(Self, index))
         \/ Apply("ColumnMut::right_mut", <<index>>,
                  ColumnMut_right_mut(Self, index))

ColumnRotateTop ==
    /\ Idling
    /\ \E index \in ColumnViews(Self), number \in 0..(MaxH + 1),
          overflow_checks \in BOOLEAN :
           Apply("ColumnMut::rotate_top", <<index, number>>,
                 ColumnMut_rotate_top(Self, index, number, overflow_checks))

ColumnRotateBottom ==
    /\ Idling
    /\ \E index \in ColumnViews(Self), number \in 0..(MaxH + 1) :
           Apply("ColumnMut::rotate_bottom", <<index, number>>,
                 ColumnMut_rotate_bottom(Self, index, number))

ColumnReverse ==
    /\ Idling
    /\ \E index \in ColumnViews(Self) :
           Apply("ColumnMut::reverse", <<index>>,
                 Ok(ColumnMut_reverse(Self, index), <<>>))

\* The caller takes an iterator; it borrows the grid until it is dropped.
Iterate(op, args, iterator) ==
    /\ pre' = Self
    /\ last' = Call(op, args, Ok(Self, <<>>))
    /\ it' = iterator
    /\ trace' = <<>>
    /\ UNCHANGED <<size, rows, row_capacity, rows_cap, rotation>>

GridIterator ==
    /\ Idling
    /\ Iterate("Grid::iterator", <<>>, IteratorGrid_new)

RowIterator ==
    /\ Idling
    /\ \E index \in RowViews(Self) :
           Iterate("Row::iterator", <<index>>, IteratorRow_new(index))

ColumnIterator ==
    /\ Idling
    /\ \E index \in ColumnViews(Self) :
           Iterate("Column::iterator", <<index>>, IteratorColumn_new(index))

\* The caller wraps the iterator it holds in the adaptor.
EnumerateCoordinate ==
    /\ it.kind # "none"
    /\ ~it.enumerate
    /\ pre' = Self
    /\ last' = Call("enumerate_coordinate", <<>>, Ok(Self, <<>>))
    /\ it' = EnumerateCoordinate_new(it)
    /\ UNCHANGED <<size, rows, row_capacity, rows_cap, trace, rotation>>

\* The coordinate a produced item points at.
ItemAt(item) == IF it.enumerate THEN item[2].at ELSE item.at

\* The caller calls next() on the iterator (or the adaptor) it holds; trace
\* collects the coordinates of the items produced.
IteratorNext ==
    /\ it.kind # "none"
    /\ LET r == IF it.enumerate THEN EnumerateCoordinate_next(Self, it)
                ELSE Iterator_next(Self, it)
       IN  /\ pre' = Self
           /\ last' = [op |-> "next", args |-> <<>>, err |-> r.err, ret |-> r.ret]
           /\ it' = r.it
           /\ trace' = IF Len(r.ret) = 0 THEN trace
                       ELSE Append(trace, ItemAt(r.ret[1]))
    /\ UNCHANGED <<size, rows, row_capacity, rows_cap, rotation>>

\* The caller calls coordinate() on the iterator it holds.
IteratorCoordinate ==
    /\ it.kind # "none"
    /\ ~it.enumerate
    /\ pre' = Self
    /\ last' = Call("coordinate", <<>>, Ok(Self, <<Iterator_coordinate(it)>>))
    /\ UNCHANGED <<size, rows, row_capacity, rows_cap, it, trace, rotation>>

GridValues ==
    /\ Idling
    /\ Apply("values", <<>>, values(Self))

Next ==
    \/ Forget
    \/ Resize
    \/ Fill
    \/ Clear
    \/ Value
    \/ ValueMut
    \/ SetValue
    \/ SwapValue
    \/ SwapRow
    \/ InsertRow
    \/ RemoveRow
    \/ SwapColumn
    \/ InsertColumn
    \/ RemoveColumn
    \/ FlipHorizontally
    \/ FlipVertically
    \/ RotateLeft
    \/ RotateRight
    \/ Reserve
    \/ RowTop
    \/ RowBottom
    \/ ColumnLeft
    \/ ColumnRight
    \/ ColumnRotateTop
    \/ ColumnRotateBottom
    \/ ColumnReverse
    \/ GridIndex
    \/ GridIndexMut
    \/ FromRows
    \/ FromColumns
    \/ GridIterator
    \/ RowIterator
    \/ ColumnIterator
    \/ EnumerateCoordinate
    \/ IteratorNext
    \/ IteratorCoordinate
    \/ GridValues

Spec == Init /\ [][Next]_vars

(* ------------------- a rotation, one step at a time ------------------- *)
\* rotate_left / rotate_right up to the loops: let size = ..; let mut grid =
\* Self::with_capacity(size).
RotateEnter(op) ==
    /\ Idling
    /\ rotation.pc = "none"
    /\ pre' = Self
    /\ last' = Call(op, <<>>, Ok(Self, <<>>))
    /\ rotation' = LET sz == Size(size.height, size.width)
                   IN  [pc |-> "loop", size |-> sz,
                        grid |-> with_capacity(sz), passes |-> 0]
    /\ UNCHANGED <<size, rows, row_capacity, rows_cap, it, trace>>

RotateLeftEnter == RotateEnter("rotate_left")

RotateRightEnter == RotateEnter("rotate_right")

\* One pass of the inner loop body, grid.rows[j].push(self.rows[i].pop()
\* .unwrap()): i and j ascending in rotate_left, descending in rotate_right.
\* A failing unwrap ends the call with self as the passes so far left it.
RotatePass ==
    /\ rotation.pc = "loop"
    /\ rotation.passes < size.width * size.height
    /\ LET k  == rotation.passes
           i  == IF last.op = "rotate_left" THEN k \div size.width
                 ELSE size.height - 1 - (k \div size.width)
           j  == IF last.op = "rotate_left" THEN k % size.width
                 ELSE size.width - 1 - (k % size.width)
           st == rotate_step([src |-> rows, dst |-> rotation.grid.rows,
                              err |-> "none"], i, j)
       IN  IF st.err # "none"
           THEN /\ last' = [last EXCEPT !.err = st.err]
                /\ rotation' = NoRotation
                /\ UNCHANGED rows
           ELSE /\ rows' = st.src
                /\ rotation' = [rotation EXCEPT !.grid.rows = st.dst,
                                                !.passes = k + 1]
                /\ UNCHANGED last
    /\ UNCHANGED <<size, row_capacity, rows_cap, pre, it, trace>>

\* After the loops: grid.size = size; std::mem::swap(self, &mut grid); the
\* call returns and the old grid is dropped.
RotateSwap ==
    /\ rotation.pc = "loop"
    /\ rotation.passes = size.width * size.height
    /\ size' = rotation.size
    /\ rows' = rotation.grid.rows
    /\ row_capacity' = rotation.grid.row_capacity
    /\ rows_cap' = rotation.grid.rows_cap
    /\ rotation' = NoRotation
    /\ UNCHANGED <<pre, last, it, trace>>

\* The caller drops the result of the call that has returned.
RotateForget ==
    /\ rotation.pc = "none"
    /\ Forget

NextRotation ==
    \/ RotateLeftEnter
    \/ RotateRightEnter
    \/ RotatePass
    \/ RotateSwap
    \/ RotateForget

SpecRotation == Init /\ [][NextRotation]_vars

(* ------------------------------ claims -------------------------------- *)
\* The coordinates inside a size.
CoordsIn(sz) ==
    {Coordinate(x, y) : x \in 0..(sz.width - 1), y \in 0..(sz.height - 1)}

\* The element of g at an in-bounds coordinate, as value() returns it.
At(g, c) == value(g, c).ret[1]

\* Size, capacity and all elements of g and h are the same.
Same(g, h) ==
    /\ g.size = h.size
    /\ capacity(g) = capacity(h)
    /\ g.rows = h.rows

OutOf(sz, c) == c.x >= sz.width \/ c.y >= sz.height

GeqSize(a, b) == a.width >= b.width /\ a.height >= b.height

\* C1: value, value_mut and set_value fail with an out-of-bounds error exactly
\* when c.x >= size.width or c.y >= size.height, swap_value exactly when a or b
\* is out of bounds; they succeed otherwise; a failed call leaves size,
\* capacity and all elements unchanged.
Thm_C1_BoundsContract ==
    /\ last.op \in {"value", "value_mut", "set_value"} =>
         /\ (last.err = "OutOfBounds") <=> OutOf(pre.size, last.args[1])
         /\ (last.err = "none") <=> ~OutOf(pre.size, last.args[1])
         /\ last.err # "none" => Same(pre, Self)
    /\ last.op = "swap_value" =>
         /\ (last.err = "OutOfBounds") <=>
               (OutOf(pre.size, last.args[1]) \/ OutOf(pre.size, last.args[2]))
         /\ (last.err = "none") <=>
               ~(OutOf(pre.size, last.args[1]) \/ OutOf(pre.size, last.args[2]))
         /\ last.err # "none" => Same(pre, Self)

\* swap_value failed on a grid with elements because b lies on the boundary
\* x = width while a is in bounds.
Wit_C1_SwapBoundary ==
    /\ last.op = "swap_value"
    /\ last.err = "OutOfBounds"
    /\ ~OutOf(pre.size, last.args[1])
    /\ last.args[2].x = pre.size.width
    /\ last.args[2].y < pre.size.height

\* C2: after any sequence of public operations the capacity is at least the
\* size on both axes.
Thm_C2_CapacityCoversSize == GeqSize(capacity(Self), size)

\* A column was inserted into a grid whose rows were full (width = capacity
\* width) and that holds elements.
Wit_C2_InsertColumnAtCapacity ==
    /\ last.op = "insert_column"
    /\ last.err = "none"
    /\ pre.size.width = pre.row_capacity
    /\ pre.size.height > 0

\* C3: resize, clear, reserve, insert_row, insert_column, remove_row and
\* remove_column never decrease a component of the capacity.
Thm_C3_CapacityMonotonic ==
    last.op \in {"resize", "clear", "reserve", "insert_row", "insert_column",
                 "remove_row", "remove_column"} =>
        GeqSize(capacity(Self), capacity(pre))

\* A row was removed from a grid that had no spare row.
Wit_C3_RemoveRowNoSpare ==
    /\ last.op = "remove_row"
    /\ last.err = "none"
    /\ Len(pre.rows) = pre.size.height

\* C4: a successful swap_value(a, b) exchanges the values at a and b and
\* leaves every other element, the size and the capacity unchanged (so a = b
\* leaves the grid unchanged), for a and b in the same row or in different
\* rows.
Thm_C4_SwapValueReference ==
    (last.op = "swap_value" /\ last.err = "none") =>
        LET a == last.args[1]
            b == last.args[2]
        IN  /\ size = pre.size
            /\ capacity(Self) = capacity(pre)
            /\ Len(rows) = Len(pre.rows)
            /\ \A i \in 1..Len(rows) : Len(rows[i]) = Len(pre.rows[i])
            /\ \A c \in CoordsIn(size) :
                 At(Self, c) = IF c = a THEN At(pre, b)
                               ELSE IF c = b THEN At(pre, a)
                               ELSE At(pre, c)

\* Two different values in different rows and different columns were swapped.
Wit_C4_SwapAcrossRows ==
    /\ last.op = "swap_value"
    /\ last.err = "none"
    /\ last.args[1].y # last.args[2].y
    /\ last.args[1].x # last.args[2].x
    /\ At(pre, last.args[1]) # At(pre, last.args[2])

\* C5: after resize(newSize, v) the size is newSize, every coordinate inside
\* both the old and the new size keeps its value, and every coordinate inside
\* the new size but outside the old size holds v.
Thm_C5_ResizeContents ==
    last.op = "resize" =>
        LET newSize == last.args[1]
            v       == last.args[2]
        IN  /\ last.err = "none"
            /\ size = newSize
            /\ \A i \in 1..newSize.height : Len(rows[i]) = newSize.width
            /\ \A c \in CoordsIn(newSize) :
                 At(Self, c) = IF OutOf(pre.size, c) THEN v ELSE At(pre, c)

\* resize grew a grid with elements into a spare row kept from an earlier
\* shrink or removal, with a fill value that differs from an old element.
Wit_C5_ResizeIntoSpareRow ==
    /\ last.op = "resize"
    /\ pre.size.width > 0
    /\ pre.size.height > 0
    /\ Len(pre.rows) > pre.size.height
    /\ size.height > pre.size.height
    /\ size.width >= pre.size.width
    /\ At(pre, Coordinate(0, 0)) # last.args[2]

\* C6: after resize(newSize, v) the capacity is (max(old capacity width,
\* newSize.width), max(old capacity height, newSize.height)); clear() leaves
\* the capacity unchanged.
Thm_C6_ResizeCapacity ==
    /\ last.op = "resize" =>
         capacity(Self) =
             Size(Max(capacity(pre).width, last.args[1].width),
                  Max(capacity(pre).height, last.args[1].height))
    /\ last.op = "clear" =>
         /\ capacity(Self) = capacity(pre)
         /\ size = Size(0, 0)

\* resize shrank a grid on both axes.
Wit_C6_ResizeShrink ==
    /\ last.op = "resize"
    /\ size.width < pre.size.width
    /\ size.height < pre.size.height
    /\ size.width > 0

\* C7: a successful insert_row(index, row) adds one to the height and leaves
\* the width; row index is the supplied row, the rows before it keep their
\* place and the rows from index on move down by one.  insert_column does the
\* same along the other axis, taking the column top to bottom.
Thm_C7_InsertPlacement ==
    /\ (last.op = "insert_row" /\ last.err = "none") =>
         LET index == last.args[1]
             row   == last.args[2]
         IN  /\ size = Size(pre.size.width, pre.size.height + 1)
             /\ \A c \in CoordsIn(size) :
                  At(Self, c) =
                      IF c.y < index THEN At(pre, c)
                      ELSE IF c.y = index THEN row[c.x + 1]
                      ELSE At(pre, Coordinate(c.x, c.y - 1))
    /\ (last.op = "insert_column" /\ last.err = "none") =>
         LET index  == last.args[1]
             column == last.args[2]
         IN  /\ size = Size(pre.size.width + 1, pre.size.height)
             /\ \A c \in CoordsIn(size) :
                  At(Self, c) =
                      IF c.x < index THEN At(pre, c)
                      ELSE IF c.x = index THEN column[c.y + 1]
                      ELSE At(pre, Coordinate(c.x - 1, c.y))

\* A column of two different values was inserted in front of a column.
Wit_C7_InsertColumnMiddle ==
    /\ last.op = "insert_column"
    /\ last.err = "none"
    /\ last.args[1] < pre.size.width
    /\ Len(last.args[2]) >= 2
    /\ last.args[2][1] # last.args[2][2]

\* C8: insert_row / insert_column fail out of bounds when index is greater
\* than the length on that axis, and with a shape error when the vector's
\* length differs from the length on the other axis (the index is checked
\* first, so a call with both faults reports the index); remove_row /
\* remove_column fail out of bounds when index >= length; a failed call
\* leaves size, capacity and all elements as before.
Thm_C8_InsertRemoveFailures ==
    /\ last.op = "insert_row" =>
         /\ last.args[1] > pre.size.height => last.err = "OutOfBounds"
         /\ Len(last.args[2]) # pre.size.width =>
                last.err = IF last.args[1] > pre.size.height
                           THEN "OutOfBounds" ELSE "ShapeError"
    /\ last.op = "insert_column" =>
         /\ last.args[1] > pre.size.width => last.err = "OutOfBounds"
         /\ Len(last.args[2]) # pre.size.height =>
                last.err = IF last.args[1] > pre.size.width
                           THEN "OutOfBounds" ELSE "ShapeError"
    /\ last.op = "remove_row" =>
         (last.args[1] >= pre.size.height => last.err = "OutOfBounds")
    /\ last.op = "remove_column" =>
         (last.args[1] >= pre.size.width => last.err = "OutOfBounds")
    /\ (/\ last.op \in {"insert_row", "insert_column",
                        "remove_row", "remove_column"}
        /\ last.err # "none") => Same(pre, Self)

\* insert_row failed with a shape error on a grid that has elements and a
\* spare row.
Wit_C8_InsertRowShapeError ==
    /\ last.op = "insert_row"
    /\ last.err = "ShapeError"
    /\ pre.size.width > 0
    /\ pre.size.height > 0
    /\ Len(pre.rows) > pre.size.height

\* C9: after a successful insert_row(index, row), remove_row(index) succeeds
\* and restores the size and the value at every coordinate that the grid had
\* before the insertion.
Thm_C9_InsertThenRemoveRow ==
    (last.op = "insert_row" /\ last.err = "none") =>
        LET r == remove_row(Self, last.args[1])
        IN  /\ r.err = "none"
            /\ r.g.size = pre.size
            /\ \A c \in CoordsIn(pre.size) : At(r.g, c) = At(pre, c)

\* A row was inserted above the last row of a grid whose last row differs
\* from it.
Wit_C9_InsertAboveLast ==
    /\ last.op = "insert_row"
    /\ last.err = "none"
    /\ pre.size.width > 0
    /\ last.args[1] < pre.size.height
    /\ last.args[2] # pre.rows[pre.size.height]

\* C10: remove_row and remove_column leave the capacity unchanged; insert_row
\* and insert_column leave it unchanged when the size on the affected axis is
\* smaller than the capacity on that axis, and otherwise add exactly one to
\* the capacity on that axis and leave the other axis's capacity.
Thm_C10_InsertRemoveCapacity ==
    /\ (last.op \in {"remove_row", "remove_column"} /\ last.err = "none") =>
         capacity(Self) = capacity(pre)
    /\ (last.op = "insert_row" /\ last.err = "none") =>
         capacity(Self) =
             IF pre.size.height < capacity(pre).height
             THEN capacity(pre)
             ELSE Size(capacity(pre).width, capacity(pre).height + 1)
    /\ (last.op = "insert_column" /\ last.err = "none") =>
         capacity(Self) =
             IF pre.size.width < capacity(pre).width
             THEN capacity(pre)
             ELSE Size(capacity(pre).width + 1, capacity(pre).height)

\* A row was inserted into a grid that had a spare row.
Wit_C10_InsertRowWithSpare ==
    /\ last.op = "insert_row"
    /\ last.err = "none"
    /\ pre.size.height < Len(pre.rows)
    /\ pre.size.width > 0

\* The sizes and the elements of g and h are the same (capacity aside).
SameValues(g, h) ==
    /\ g.size = h.size
    /\ \A c \in CoordsIn(g.size) : At(g, c) = At(h, c)

\* C11: rotate_left on a grid of size (W, H) succeeds and yields a grid of
\* size (H, W) whose value at (x, y) is the old value at (W - 1 - y, x), for
\* square, non-square and empty grids.
Thm_C11_RotateLeftMapping ==
    last.op = "rotate_left" =>
        /\ last.err = "none"
        /\ size = Size(pre.size.height, pre.size.width)
        /\ \A i \in 1..size.height : Len(rows[i]) = size.width
        /\ \A c \in CoordsIn(size) :
             At(Self, c) = At(pre, Coordinate(pre.size.width - 1 - c.y, c.x))

\* rotate_left turned a non-square grid whose first and last element differ.
Wit_C11_RotateLeftNonSquare ==
    /\ last.op = "rotate_left"
    /\ last.err = "none"
    /\ pre.size.width > pre.size.height
    /\ pre.size.height > 0
    /\ At(pre, Coordinate(0, 0)) # At(pre, Coordinate(pre.size.width - 1, 0))

\* C12: rotate_left followed by rotate_right, and rotate_right followed by
\* rotate_left, restores the size and the value at every coordinate.
Thm_C12_RotateRoundTrip ==
    /\ (last.op = "rotate_left" /\ last.err = "none") =>
         LET r == rotate_right(Self)
         IN  r.err = "none" /\ SameValues(r.g, pre)
    /\ (last.op = "rotate_right" /\ last.err = "none") =>
         LET r == rotate_left(Self)
         IN  r.err = "none" /\ SameValues(r.g, pre)

\* rotate_left turned a grid that a half turn would change, and that has
\* spare capacity on both axes.
Wit_C12_RotatedAsymmetric ==
    /\ last.op = "rotate_left"
    /\ last.err = "none"
    /\ pre.size.width >= 2
    /\ pre.size.height >= 1
    /\ At(pre, Coordinate(0, 0)) #
           At(pre, Coordinate(pre.size.width - 1, pre.size.height - 1))
    /\ pre.row_capacity > pre.size.width
    /\ Len(pre.rows) > pre.size.height

\* C13 as claimed: rotate_left and rotate_right turn a capacity of (a, b)
\* into (b, a), also when the capacity exceeds the size.
Cex_C13_CapacityRotated ==
    (last.op \in {"rotate_left", "rotate_right"} /\ last.err = "none") =>
        capacity(Self) = Size(capacity(pre).height, capacity(pre).width)

\* C14: flip_horizontally twice and flip_vertically twice restore the value
\* at every coordinate; one flip leaves the size and the capacity unchanged.
Thm_C14_FlipInvolution ==
    /\ last.op = "flip_horizontally" =>
         LET r == flip_horizontally(Self)
         IN  /\ last.err = "none" /\ r.err = "none"
             /\ size = pre.size /\ capacity(Self) = capacity(pre)
             /\ SameValues(r.g, pre)
    /\ last.op = "flip_vertically" =>
         LET r == flip_vertically(Self)
         IN  /\ last.err = "none" /\ r.err = "none"
             /\ size = pre.size /\ capacity(Self) = capacity(pre)
             /\ SameValues(r.g, pre)

\* flip_vertically reversed a column of three whose ends differ, in a grid
\* with spare capacity.
Wit_C14_FlipChangedGrid ==
    /\ last.op = "flip_vertically"
    /\ pre.size.height = 3
    /\ pre.size.width > 0
    /\ pre.row_capacity > pre.size.width
    /\ At(pre, Coordinate(0, 0)) # At(pre, Coordinate(0, 2))
    /\ At(Self, Coordinate(0, 0)) = At(pre, Coordinate(0, 2))

\* C18 as claimed: in a grid of width W and height H the row view i has no
\* top exactly when i = 0 and no bottom exactly when i = H - 1, the column view
\* j has no left exactly when j = 0 and no right exactly when j = W - 1;
\* otherwise the lookup gives the view of the adjacent index; no lookup
\* fails; the same for the lookups of the mutable views.
Cex_C18_ViewNeighbours ==
    LET i == last.args[1]
    IN  /\ last.op \in {"Row::top", "RowMut::top", "RowMut::top_mut"} =>
             /\ last.err = "none"
             /\ last.ret = IF i = 0 THEN <<>> ELSE <<i - 1>>
        /\ last.op \in {"Row::bottom", "RowMut::bottom", "RowMut::bottom_mut"} =>
             /\ last.err = "none"
             /\ last.ret = IF i = pre.size.height - 1 THEN <<>> ELSE <<i + 1>>
        /\ last.op \in {"Column::left", "ColumnMut::left", "ColumnMut::left_mut"} =>
             /\ last.err = "none"
             /\ last.ret = IF i = 0 THEN <<>> ELSE <<i - 1>>
        /\ last.op \in {"Column::right", "ColumnMut::right",
                        "ColumnMut::right_mut"} =>
             /\ last.err = "none"
             /\ last.ret = IF i = pre.size.width - 1 THEN <<>> ELSE <<i + 1>>

\* C19 as claimed: for 0 <= n <= L, ColumnMut::rotate_top(n) on a column of
\* length L succeeds and leaves at position p the element that was at
\* position (p + n) mod L; every other column is unchanged.
Cex_C19_RotateTopCyclic ==
    (last.op = "ColumnMut::rotate_top" /\ last.args[2] <= pre.size.height) =>
        /\ last.err = "none"
        /\ size = pre.size
        /\ \A c \in CoordsIn(pre.size) :
             At(Self, c) =
                 IF c.x = last.args[1]
                 THEN At(pre, Coordinate(c.x, (c.y + last.args[2]) % pre.size.height))
                 ELSE At(pre, c)

\* C20 as claimed: for 0 <= n <= L, ColumnMut::rotate_bottom(n) on a column
\* of length L succeeds and leaves at position p the element that was at
\* position (p - n) mod L; every other column is unchanged.
Cex_C20_RotateBottomCyclic ==
    (last.op = "ColumnMut::rotate_bottom" /\ last.args[2] <= pre.size.height) =>
        /\ last.err = "none"
        /\ size = pre.size
        /\ \A c \in CoordsIn(pre.size) :
             At(Self, c) =
                 IF c.x = last.args[1]
                 THEN At(pre, Coordinate(c.x, (c.y - last.args[2]) % pre.size.height))
                 ELSE At(pre, c)

\* The k-th coordinate (k = 0, 1, ...) of a size of width >= 1 in row-major
\* order.
RowMajor(sz, k) == Coordinate(k % sz.width, k \div sz.width)

\* C15 as claimed: on every grid, grids of width 0 or height 0 included,
\* next() on the iterator of the whole grid never fails, its k-th item is the
\* element at the k-th coordinate in row-major order, it produces width x
\* height items and returns None from then on; values() is the list of these
\* items.
Cex_C15_GridIteration ==
    /\ (last.op = "next" /\ it.kind = "grid" /\ ~it.enumerate) =>
         /\ last.err = "none"
         /\ Len(last.ret) > 0 =>
              /\ Len(trace) <= size.width * size.height
              /\ last.ret[1].at = RowMajor(size, Len(trace) - 1)
              /\ last.ret[1].val = At(Self, last.ret[1].at)
         /\ Len(last.ret) = 0 => Len(trace) = size.width * size.height
    /\ last.op = "values" =>
         /\ last.err = "none"
         /\ Len(last.ret[1]) = size.width * size.height
         /\ \A k \in 1..Len(last.ret[1]) :
              /\ last.ret[1][k].at = RowMajor(size, k - 1)
              /\ last.ret[1][k].val = At(Self, last.ret[1][k].at)

\* C16 as claimed: once next() has produced an item, coordinate() is the
\* coordinate of the last item produced.
Cex_C16_CoordinateOfLastItem ==
    (last.op = "coordinate" /\ Len(trace) > 0) =>
        last.ret[1] = trace[Len(trace)]

\* C16 amended: once next() has produced an item, coordinate() is the
\* coordinate that follows the last item's in the order of the iteration:
\* over the whole grid one column to the right, or the first column of the
\* next row after the last column (so (0, height) after the last item); over
\* a row one column to the right; over a column one row down.  It is the
\* coordinate of the item that the next call of next() produces, if that call
\* produces one.
Thm_C16_CoordinateOfNextItem ==
    (last.op = "coordinate" /\ Len(trace) > 0) =>
        LET p == trace[Len(trace)]
            c == last.ret[1]
            r == Iterator_next(Self, it)
        IN  /\ it.kind = "grid" =>
                 c = IF p.x + 1 = size.width THEN Coordinate(0, p.y + 1)
                     ELSE Coordinate(p.x + 1, p.y)
            /\ it.kind = "row" => c = Coordinate(p.x + 1, p.y)
            /\ it.kind = "column" => c = Coordinate(p.x, p.y + 1)
            /\ Len(r.ret) > 0 => r.ret[1].at = c

\* coordinate() was called on the iterator of a whole grid right after the
\* last item of a row that is not the last row.
Wit_C16_CoordinateAfterRowEnd ==
    /\ last.op = "coordinate"
    /\ it.kind = "grid"
    /\ Len(trace) > 0
    /\ size.width >= 2
    /\ trace[Len(trace)].x = size.width - 1
    /\ trace[Len(trace)].y < size.height - 1

\* C17: every item (c, v) that next() of enumerate_coordinate() yields over a
\* grid, row or column iterator has v = the element at c, and v is the
\* reference to the element at c; over a row iterator c.y is the row's index,
\* over a column iterator c.x is the column's index.
Thm_C17_EnumerateCoordinate ==
    (last.op = "next" /\ it.enumerate /\ Len(last.ret) > 0) =>
        LET c == last.ret[1][1]
            v == last.ret[1][2]
        IN  /\ last.err = "none"
            /\ ~OutOf(size, c)
            /\ v.at = c
            /\ v.val = At(Self, c)
            /\ it.kind = "row" => c.y = it.view
            /\ it.kind = "column" => c.x = it.view

\* The adaptor over the iterator of a column that is not the first yielded
\* its second item, which differs from the first.
Wit_C17_EnumerateColumn ==
    /\ last.op = "next"
    /\ it.enumerate
    /\ it.kind = "column"
    /\ it.view >= 1
    /\ Len(last.ret) > 0
    /\ Len(trace) = 2
    /\ At(Self, trace[1]) # At(Self, trace[2])

\* C21 as claimed: ColumnMut::rotate_top(n) and ColumnMut::rotate_bottom(n)
\* with n greater than the length of the column fail out of bounds and leave
\* the grid unchanged.
Cex_C21_RotateBeyondLength ==
    (/\ last.op \in {"ColumnMut::rotate_top", "ColumnMut::rotate_bottom"}
     /\ last.args[2] > pre.size.height) =>
        /\ last.err = "OutOfBounds"
        /\ Same(pre, Self)

\* C22: ColumnMut::reverse on column i of a grid of height H leaves at every
\* position p of that column the element that was at position H-1-p, and
\* leaves every other column, the size and the capacity unchanged;
\* flip_vertically leaves every column reversed in that way.
Thm_C22_ColumnReverse ==
    /\ last.op = "ColumnMut::reverse" =>
        /\ last.err = "none"
        /\ size = pre.size
        /\ capacity(Self) = capacity(pre)
        /\ \A c \in CoordsIn(pre.size) :
               At(Self, c) =
                   IF c.x = last.args[1]
                   THEN At(pre, Coordinate(c.x, pre.size.height - 1 - c.y))
                   ELSE At(pre, c)
    /\ last.op = "flip_vertically" =>
        /\ last.err = "none"
        /\ size = pre.size
        /\ \A c \in CoordsIn(pre.size) :
               At(Self, c) =
                   At(pre, Coordinate(c.x, pre.size.height - 1 - c.y))

\* column 1 of [[1,2],[2,1]] has been reversed, column 0 kept
Wit_C22_ColumnReversed ==
    /\ last.op = "ColumnMut::reverse"
    /\ last.args = <<1>>
    /\ pre.size = Size(2, 2)
    /\ pre.rows = <<<<1, 2>>, <<2, 1>>>>
    /\ rows = <<<<1, 1>>, <<2, 2>>>>

\* C23 as claimed: reserve(additional) changes the capacity from (cw, ch) to
\* exactly (cw + additional.width, ch + additional.height) and leaves the
\* size and the elements unchanged.
Cex_C23_ReserveExactly ==
    last.op = "reserve" =>
        /\ last.err = "none"
        /\ capacity(Self) =
               Size(capacity(pre).width + last.args[1].width,
                    capacity(pre).height + last.args[1].height)
        /\ SameValues(pre, Self)

\* C23, amended: reserve(additional) changes the capacity from (cw, ch) to
\* (cw + additional.width, h) where h is the greater of
\* ch + additional.height and the number of rows the row store had already
\* allocated, and leaves the size and the elements unchanged.
Thm_C23_ReserveAtLeast ==
    last.op = "reserve" =>
        /\ last.err = "none"
        /\ capacity(Self) =
               Size(capacity(pre).width + last.args[1].width,
                    Max(capacity(pre).height + last.args[1].height,
                        pre.rows_cap))
        /\ SameValues(pre, Self)

\* reserve has added to both dimensions of a grid that holds elements and
\* whose row store had room to spare
Wit_C23_ReservedPastAllocation ==
    /\ last.op = "reserve"
    /\ last.args = <<Size(1, 1)>>
    /\ pre.size.width > 0 /\ pre.size.height > 0
    /\ pre.rows_cap > Len(pre.rows) + 1
    /\ capacity(Self).height > capacity(pre).height + 1

\* What from_rows is claimed to do with a list of rows, given how the call
\* ended and the grid it left.
FromRowsAsClaimed(list, err, g) ==
    IF \E i \in 1..Len(list) : Len(list[i]) # Len(list[1])
    THEN err = "ShapeError"
    ELSE /\ err = "none"
         /\ g.size = Size(Len(list[1]), Len(list))
         /\ capacity(g) = g.size
         /\ \A c \in CoordsIn(g.size) : At(g, c) = list[c.y + 1][c.x + 1]

Thm_C26_SetValueFrame ==
    (/\ last.op = "set_value"
     /\ last.args[1] \in CoordsIn(pre.size)) =>
        /\ last.err = "none"
        /\ size = pre.size
        /\ capacity(Self) = capacity(pre)
        /\ \A c \in CoordsIn(pre.size) :
               At(Self, c) = IF c = last.args[1] THEN last.args[2]
                             ELSE At(pre, c)

\* set_value has replaced the 1 at (1, 0) of [[1,1],[1,1]] by 2
Wit_C26_OneElementReplaced ==
    /\ last.op = "set_value"
    /\ last.args = <<Coordinate(1, 0), 2>>
    /\ pre.rows = <<<<1, 1>>, <<1, 1>>>>
    /\ pre.size = Size(2, 2)
    /\ rows = <<<<1, 2>>, <<1, 1>>>>

\* C27: in every reachable state grid[c] (and &mut grid[c]) fails with an
\* index-out-of-bounds error for every c with c.x >= width or c.y >= height,
\* also when c.y addresses a row kept beyond the height; for an in-bounds c
\* it yields the element value(c) yields; the grid is left as it was.
Thm_C27_IndexWithinSize ==
    last.op \in {"index", "index_mut"} =>
        LET c == last.args[1]
        IN  /\ (c.x >= pre.size.width \/ c.y >= pre.size.height) =>
                   (last.err = "OutOfBounds" /\ last.ret = <<>>)
            /\ c \in CoordsIn(pre.size) =>
                   (last.err = "none" /\ last.ret = value(pre, c).ret)
            /\ Same(pre, Self)

\* grid[c] has failed where c.x is within the width and c.y addresses a row
\* kept beyond the height of a grid that holds elements
Wit_C27_IndexIntoSpareRow ==
    /\ last.op = "index"
    /\ last.err = "OutOfBounds"
    /\ pre.size.width > 0 /\ pre.size.height > 0
    /\ last.args[1].x < pre.size.width
    /\ last.args[1].y >= pre.size.height
    /\ last.args[1].y < Len(pre.rows)

\* C29: after any sequence of public operations every row-buffer with index
\* below size.height has length exactly size.width, and every row-buffer
\* kept at an index from size.height on has length 0.
Thm_C29_RowBufferLengths ==
    /\ Len(rows) >= size.height
    /\ \A i \in 1..Len(rows) :
           Len(rows[i]) = IF i <= size.height THEN size.width ELSE 0

\* a grid that holds elements has had a row removed and keeps its buffer
Wit_C29_SparePoolAfterRemoveRow ==
    /\ last.op = "remove_row"
    /\ last.err = "none"
    /\ size.width > 0 /\ size.height > 0
    /\ Len(rows) > size.height

\* C30 as claimed: rotate_left and rotate_right build the rotated store apart
\* from the grid and replace the grid in one final swap: at every step
\* before the swap the grid still has its original size and all its original
\* element values, none of its rows being emptied in part.
Cex_C30_OriginalUntouchedBeforeSwap ==
    rotation.pc = "loop" =>
        /\ size = pre.size
        /\ rows = pre.rows

====
